---- MODULE Spec2Model ----
(***************************************************************************)
(* Model of the grammar cache of                                           *)
(*   python/sglang/srt/constrained/base_grammar_backend.py                 *)
(* BaseGrammarBackend keeps a dict  key -> CacheEntry(value, event)  under *)
(* cache_lock.  _init_value looks the key up under the lock, compiles      *)
(* outside the lock when it inserted the entry, and otherwise waits on the *)
(* entry's event.  get_cached_value peeks under the lock, reset clears the *)
(* dict under the lock, get_future_value submits _init_value to the        *)
(* executor.                                                               *)
(*                                                                         *)
(* and of the sampling state of a batch of                                 *)
(*   python/sglang/srt/sampling/sampling_batch_info.py                     *)
(* SamplingBatchInfo keeps one row per request in the tensors temperatures,*)
(* top_ps, top_ks, min_ps and, when there is one, logit_bias, with the     *)
(* flags is_all_greedy and need_min_p_sampling, the grammar list, the      *)
(* vocabulary mask and the penalty buffers derived from them.              *)
(***************************************************************************)
EXTENDS Integers, Sequences, FiniteSets, Bags, TLC

\* ------------------------------------------------------------------ bounds
\* number of operations (_init_value, get_future_value, get_cached_value,
\* reset) started in a run
MaxCalls == 3

\* number of threads that call the backend directly (the scheduler side)
NumCallers == 1
\* number of threads of the ThreadPoolExecutor
NumWorkers == 2

\* number of requests scheduled in a run, over all batches
MaxReqs == 3
\* number of operations on the SamplingBatchInfo objects in a run
MaxOps == 2
\* the vocab_size handed to from_schedule_batch
VocabSize == 2

Callers == 1..NumCallers
Workers == (NumCallers + 1)..(NumCallers + NumWorkers)
Threads == Callers \cup Workers

\* --------------------------------------------------------------- the keys
\* A key is the pair (key_type, key_string).  The key_string stands for the
\* text handed to the concrete backend and decides what that backend does
\* with it: "ok" compiles, "unsupported" is skipped by the backend
\* (_not_supported, returns None), "crash" makes the backend raise.
Kinds == {"json", "regex", "ebnf", "structural_tag"}

Keys ==
  { <<"json", "ok">>, <<"regex", "unsupported">>,
    <<"ebnf", "crash">>, <<"yaml", "ok">> }

\* ------------------------------------------------------------ the objects
\* A grammar object is an identity (id) and the canonical instance it was
\* copied from (src; a compiled instance is its own src).  None is Python's
\* None; Raised marks a call that ended by an exception.
None == [tag |-> "none", id |-> 0, src |-> 0]
Raised == [tag |-> "raise", id |-> 0, src |-> 0]
Obj(i, s) == [tag |-> "obj", id |-> i, src |-> s]

\* BaseGrammarObject.copy(): a new object with the same content
Copy(o, fresh) == Obj(fresh, o.src)

\* `x.copy() if x else None`
CopyOrNone(o, fresh) == IF o # None THEN Copy(o, fresh) ELSE None

\* _not_supported logs a warning and returns None
NotSupported == None

\* what the concrete backend does with a key_string of a recognised kind
Backend(key_string, fresh) ==
  IF key_string = "ok" THEN Obj(fresh, fresh)
  ELSE IF key_string = "unsupported" THEN NotSupported
  ELSE Raised

DispatchJson(key_string, fresh) == Backend(key_string, fresh)
DispatchRegex(key_string, fresh) == Backend(key_string, fresh)
DispatchEbnf(key_string, fresh) == Backend(key_string, fresh)
DispatchStructuralTag(key_string, fresh) == Backend(key_string, fresh)

\* dispatch_fallback: raise ValueError
DispatchFallback(key_type, key_string) == Raised

InitValueDispatch(k, fresh) ==
  IF k[1] = "json" THEN DispatchJson(k[2], fresh)
  ELSE IF k[1] = "regex" THEN DispatchRegex(k[2], fresh)
  ELSE IF k[1] = "ebnf" THEN DispatchEbnf(k[2], fresh)
  ELSE IF k[1] = "structural_tag" THEN DispatchStructuralTag(k[2], fresh)
  ELSE DispatchFallback(k[1], k[2])

\* ---------------------------------------------------------------- state
VARIABLES
  cache,      \* self.cache: key -> entry index, 0 when the key is not in it
  entries,    \* the CacheEntry objects ever made: [value, event]
  lock,       \* self.cache_lock: 0 when free, else the holding thread
  queue,      \* the executor's work queue: keys of the submitted _init_value
  pc,         \* position of every thread
  loc,        \* locals of every thread: key, entry, cache_hit
  nextObj,    \* next unused object identity
  \* history variables; no action reads them except for the budget
  gen,        \* number of reset() calls that have cleared the table
  made,       \* per entry: the key and the generation it was inserted in
  compiled,   \* per entry: for each run of _init_value_dispatch for it, the
              \* generation that was current when it ran
  hist,       \* bag of the calls that have ended, with what they returned
              \* and the generation current when they ended
  calls       \* operations started so far

\* the sampling state of the scheduler's batches (SamplingBatchInfo)
VARIABLES
  sb,         \* the SamplingBatchInfo objects: "self", "other", "copy"
  nreq,       \* requests scheduled so far
  nops,       \* operations on the SamplingBatchInfo objects so far
  slast       \* history: the last operation on them, with its arguments and
              \* the objects as they were before it

svars == << sb, nreq, nops, slast >>

cvars ==
  << cache, entries, lock, queue, pc, loc, nextObj,
     gen, made, compiled, hist, calls >>

vars ==
  << cache, entries, lock, queue, pc, loc, nextObj,
     gen, made, compiled, hist, calls, sb, nreq, nops, slast >>

\* an optional value: NoneT is Python's None, Some(x) a present value
NoneT == [some |-> FALSE]
Some(x) == [some |-> TRUE, v |-> x]

BatchNames == {"self", "other", "copy"}

\* no SamplingBatchInfo has been made yet
NoBatches == [b \in BatchNames |-> NoneT]

\* no operation on a SamplingBatchInfo has run yet
NoOp ==
  [op |-> "none", on |-> "none", pre |-> NoneT, other |-> NoneT,
   keep |-> << >>, raised |-> FALSE, calls |-> << >>, device |-> "none"]

\* locals of a thread that is in no call; lgen is a history field, the
\* generation that was current at the call's table lookup
NoLoc ==
  [op |-> "none", key |-> <<"", "">>, entry |-> 0, hit |-> FALSE, lgen |-> 0]

Init ==
  /\ cache = [k \in Keys |-> 0]
  /\ entries = << >>
  /\ lock = 0
  /\ queue = << >>
  /\ pc = [t \in Threads |-> "idle"]
  /\ loc = [t \in Threads |-> NoLoc]
  /\ nextObj = 1
  /\ gen = 0
  /\ made = << >>
  /\ compiled = << >>
  /\ hist = EmptyBag
  /\ calls = 0
  /\ sb = NoBatches
  /\ nreq = 0
  /\ nops = 0
  /\ slast = NoOp

\* the record logged for a call of thread t that ends with res
Ended(t, res) ==
  [op |-> loc[t].op, key |-> loc[t].key, gen |-> loc[t].lgen,
   entry |-> loc[t].entry, hit |-> loc[t].hit, res |-> res, at |-> gen]

\* a call ends: the thread is idle again and the result is logged
Finish(t, res) ==
  /\ pc' = [pc EXCEPT ![t] = "idle"]
  /\ loc' = [loc EXCEPT ![t] = NoLoc]
  /\ hist' = hist (+) SetToBag({Ended(t, res)})

\* a thread enters an operation
Enter(t, op, k, first) ==
  /\ pc' = [pc EXCEPT ![t] = first]
  /\ loc' = [loc EXCEPT ![t] = [NoLoc EXCEPT !.op = op, !.key = k]]

\* ------------------------------------------------------- entering calls
\* The threads of one kind run the same code, so which idle one takes the
\* next call or task changes nothing but the thread's name: it is always the
\* idle one of the lowest number.
LeastIdle(S, t) ==
  pc[t] = "idle" /\ \A u \in S : pc[u] = "idle" => t <= u

\* a scheduler thread calls _init_value(key) itself
CallInitValue(t, k) ==
  /\ LeastIdle(Callers, t) /\ calls < MaxCalls
  /\ Enter(t, "init", k, "iv_lookup")
  /\ calls' = calls + 1
  /\ UNCHANGED << cache, entries, lock, queue, nextObj, gen, made, compiled, hist, svars >>

\* get_future_value(key): executor.submit(self._init_value, key)
GetFutureValue(k) ==
  /\ calls < MaxCalls
  /\ queue' = Append(queue, k)
  /\ calls' = calls + 1
  /\ UNCHANGED << cache, entries, lock, pc, loc, nextObj, gen, made, compiled, hist, svars >>

\* a pool thread takes the oldest submitted task and runs _init_value
WorkerTake(t) ==
  /\ LeastIdle(Workers, t) /\ queue # << >>
  /\ Enter(t, "future", Head(queue), "iv_lookup")
  /\ queue' = Tail(queue)
  /\ UNCHANGED << cache, entries, lock, nextObj, gen, made, compiled, hist, calls, svars >>

CallGetCachedValue(t, k) ==
  /\ LeastIdle(Callers, t) /\ calls < MaxCalls
  /\ Enter(t, "cached", k, "gc_get")
  /\ calls' = calls + 1
  /\ UNCHANGED << cache, entries, lock, queue, nextObj, gen, made, compiled, hist, svars >>

CallReset(t) ==
  /\ LeastIdle(Callers, t) /\ calls < MaxCalls
  /\ Enter(t, "reset", <<"", "">>, "rs_clear")
  /\ calls' = calls + 1
  /\ UNCHANGED << cache, entries, lock, queue, nextObj, gen, made, compiled, hist, svars >>

\* ------------------------------------------------------------ _init_value
\* IvLookup that reports a hit also to the caller that inserted the entry:
\* nobody is left to compile it
IvLookup_AlwaysHit(t) ==
  /\ pc[t] = "iv_lookup" /\ lock = 0
  /\ lock' = t
  /\ IF cache[loc[t].key] # 0
       THEN /\ loc' = [loc EXCEPT ![t].hit = TRUE, ![t].entry = cache[loc[t].key],
                                  ![t].lgen = gen]
            /\ UNCHANGED << cache, entries, made, compiled >>
       ELSE /\ entries' = Append(entries, [value |-> None, event |-> FALSE])
            /\ made' = Append(made, [key |-> loc[t].key, gen |-> gen])
            /\ compiled' = Append(compiled, << >>)
            /\ cache' = [cache EXCEPT ![loc[t].key] = Len(entries) + 1]
            /\ loc' = [loc EXCEPT ![t].hit = TRUE, ![t].entry = Len(entries) + 1,
                                  ![t].lgen = gen]
  /\ pc' = [pc EXCEPT ![t] = "iv_release"]
  /\ UNCHANGED << queue, nextObj, gen, hist, calls, svars >>

\* IvLookup that takes an entry whose value is None for a miss: a key whose
\* compile gave None is inserted and compiled again
IvLookup_RetryAbsent(t) ==
  /\ pc[t] = "iv_lookup" /\ lock = 0
  /\ lock' = t
  /\ IF cache[loc[t].key] # 0 /\ entries[cache[loc[t].key]].value # None
       THEN /\ loc' = [loc EXCEPT ![t].hit = TRUE, ![t].entry = cache[loc[t].key],
                                  ![t].lgen = gen]
            /\ UNCHANGED << cache, entries, made, compiled >>
       ELSE /\ entries' = Append(entries, [value |-> None, event |-> FALSE])
            /\ made' = Append(made, [key |-> loc[t].key, gen |-> gen])
            /\ compiled' = Append(compiled, << >>)
            /\ cache' = [cache EXCEPT ![loc[t].key] = Len(entries) + 1]
            /\ loc' = [loc EXCEPT ![t].hit = FALSE, ![t].entry = Len(entries) + 1,
                                  ![t].lgen = gen]
  /\ pc' = [pc EXCEPT ![t] = "iv_release"]
  /\ UNCHANGED << queue, nextObj, gen, hist, calls, svars >>

\* lines 87-94: take the lock, look the key up, insert a new entry on a miss
IvLookup(t) ==
  /\ pc[t] = "iv_lookup" /\ lock = 0
  /\ lock' = t
  /\ IF cache[loc[t].key] # 0
       THEN /\ loc' = [loc EXCEPT ![t].hit = TRUE, ![t].entry = cache[loc[t].key],
                                  ![t].lgen = gen]
            /\ UNCHANGED << cache, entries, made, compiled >>
       ELSE /\ entries' = Append(entries, [value |-> None, event |-> FALSE])
            /\ made' = Append(made, [key |-> loc[t].key, gen |-> gen])
            /\ compiled' = Append(compiled, << >>)
            /\ cache' = [cache EXCEPT ![loc[t].key] = Len(entries) + 1]
            /\ loc' = [loc EXCEPT ![t].hit = FALSE, ![t].entry = Len(entries) + 1,
                                  ![t].lgen = gen]
  /\ pc' = [pc EXCEPT ![t] = "iv_release"]
  /\ UNCHANGED << queue, nextObj, gen, hist, calls, svars >>

\* IvRelease with the rest of _init_value inside the with block: the lock
\* is kept over the wait and the compile
IvRelease_KeepLock(t) ==
  /\ pc[t] = "iv_release" /\ lock = t
  /\ pc' = [pc EXCEPT ![t] = IF loc[t].hit THEN "iv_wait" ELSE "iv_compile"]
  /\ UNCHANGED << cache, entries, lock, queue, loc, nextObj, gen, made, compiled, hist, calls, svars >>

\* IvRelease without the branch on cache_hit: every caller compiles
IvRelease_NoBranch(t) ==
  /\ pc[t] = "iv_release" /\ lock = t
  /\ lock' = 0
  /\ pc' = [pc EXCEPT ![t] = "iv_compile"]
  /\ UNCHANGED << cache, entries, queue, loc, nextObj, gen, made, compiled, hist, calls, svars >>

\* the with block ends, then line 96 branches on cache_hit
IvRelease(t) ==
  /\ pc[t] = "iv_release" /\ lock = t
  /\ lock' = 0
  /\ pc' = [pc EXCEPT ![t] = IF loc[t].hit THEN "iv_wait" ELSE "iv_compile"]
  /\ UNCHANGED << cache, entries, queue, loc, nextObj, gen, made, compiled, hist, calls, svars >>

\* IvResult without the copy: the stored instance itself is returned
IvResult_NoCopy(t) == entries[loc[t].entry].value

\* what line 101 returns
IvResult(t) == CopyOrNone(entries[loc[t].entry].value, nextObj)

\* line 101: return entry.value.copy() if entry.value else None
IvReturn(t) ==
  /\ Finish(t, IvResult(t))
  /\ nextObj' = IF IvResult(t) = None THEN nextObj ELSE nextObj + 1

\* lines 97 and 101: entry.event.wait() returns once the event is set, then
\* the return
IvWait(t) ==
  /\ pc[t] = "iv_wait"
  /\ entries[loc[t].entry].event
  /\ IvReturn(t)
  /\ UNCHANGED << cache, entries, lock, queue, gen, made, compiled, calls, svars >>

\* IvCompile storing through the table, self.cache[key].value = ..., instead
\* of through the captured entry; a key no longer in the table is a KeyError
IvCompile_ThroughTable(t) ==
  /\ pc[t] = "iv_compile"
  /\ compiled' = [compiled EXCEPT ![loc[t].entry] = Append(@, gen)]
  /\ LET r == InitValueDispatch(loc[t].key, nextObj) IN
       IF r = Raised \/ cache[loc[t].key] = 0
         THEN /\ Finish(t, Raised)
              /\ UNCHANGED << entries, nextObj >>
         ELSE /\ entries' = [entries EXCEPT ![cache[loc[t].key]].value = r]
              /\ nextObj' = IF r = None THEN nextObj ELSE nextObj + 1
              /\ pc' = [pc EXCEPT ![t] = "iv_set"]
              /\ UNCHANGED << loc, hist >>
  /\ UNCHANGED << cache, lock, queue, gen, made, calls, svars >>

\* line 99: entry.value = self._init_value_dispatch(key).  The compile runs
\* outside the lock; when it raises, the exception leaves _init_value.
IvCompile(t) ==
  /\ pc[t] = "iv_compile"
  /\ compiled' = [compiled EXCEPT ![loc[t].entry] = Append(@, gen)]
  /\ LET r == InitValueDispatch(loc[t].key, nextObj) IN
       IF r = Raised
         THEN /\ Finish(t, Raised)
              /\ UNCHANGED << entries, nextObj >>
         ELSE /\ entries' = [entries EXCEPT ![loc[t].entry].value = r]
              /\ nextObj' = IF r = None THEN nextObj ELSE nextObj + 1
              /\ pc' = [pc EXCEPT ![t] = "iv_set"]
              /\ UNCHANGED << loc, hist >>
  /\ UNCHANGED << cache, lock, queue, gen, made, calls, svars >>

\* IvSetEvent without entry.event.set()
IvSetEvent_NoSet(t) ==
  /\ pc[t] = "iv_set"
  /\ IvReturn(t)
  /\ UNCHANGED << cache, entries, lock, queue, gen, made, compiled, calls, svars >>

\* lines 100-101: entry.event.set(), then the return
IvSetEvent(t) ==
  /\ pc[t] = "iv_set"
  /\ entries' = [entries EXCEPT ![loc[t].entry].event = TRUE]
  /\ IvReturn(t)
  /\ UNCHANGED << cache, lock, queue, gen, made, compiled, calls, svars >>

\* -------------------------------------------------------- get_cached_value
\* GcGet without the test of the event: a Pending entry is read too
GcGet_NoEventTest(t) ==
  /\ pc[t] = "gc_get" /\ lock = 0
  /\ lock' = t
  /\ loc' = [loc EXCEPT ![t].entry = cache[loc[t].key], ![t].lgen = gen]
  /\ pc' = [pc EXCEPT ![t] = IF cache[loc[t].key] = 0 THEN "gc_none" ELSE "gc_value"]
  /\ UNCHANGED << cache, entries, queue, nextObj, gen, made, compiled, hist, calls, svars >>

\* lines 104-106: take the lock, entry = self.cache.get(key), test the event
GcGet(t) ==
  /\ pc[t] = "gc_get" /\ lock = 0
  /\ lock' = t
  /\ loc' = [loc EXCEPT ![t].entry = cache[loc[t].key], ![t].lgen = gen]
  /\ pc' = [pc EXCEPT ![t] =
       IF cache[loc[t].key] = 0 \/ ~entries[cache[loc[t].key]].event
         THEN "gc_none" ELSE "gc_value"]
  /\ UNCHANGED << cache, entries, queue, nextObj, gen, made, compiled, hist, calls, svars >>

\* line 107: return None, which leaves the with block
GcNone(t) ==
  /\ pc[t] = "gc_none" /\ lock = t
  /\ lock' = 0
  /\ Finish(t, None)
  /\ UNCHANGED << cache, entries, queue, nextObj, gen, made, compiled, calls, svars >>

\* what line 109 returns
GcResult(t) == CopyOrNone(entries[cache[loc[t].key]].value, nextObj)

\* lines 108-109: val = self.cache[key].value; return its copy or None
GcValue(t) ==
  /\ pc[t] = "gc_value" /\ lock = t
  /\ lock' = 0
  /\ Finish(t, GcResult(t))
  /\ nextObj' = IF GcResult(t) = None THEN nextObj ELSE nextObj + 1
  /\ UNCHANGED << cache, entries, queue, gen, made, compiled, calls, svars >>

\* ------------------------------------------------------------------ reset
\* RsClear without self.cache.clear()
RsClear_NoClear(t) ==
  /\ pc[t] = "rs_clear" /\ lock = 0
  /\ lock' = t
  /\ gen' = gen + 1
  /\ pc' = [pc EXCEPT ![t] = "rs_release"]
  /\ UNCHANGED << cache, entries, queue, loc, nextObj, made, compiled, hist, calls, svars >>

\* RsClear that also withdraws the entries it removes: their events are set
\* with the value left None, as a cancellation would
RsClear_Cancel(t) ==
  /\ pc[t] = "rs_clear" /\ lock = 0
  /\ lock' = t
  /\ cache' = [k \in Keys |-> 0]
  /\ entries' = [e \in DOMAIN entries |->
       IF entries[e].event THEN entries[e] ELSE [entries[e] EXCEPT !.event = TRUE]]
  /\ gen' = gen + 1
  /\ pc' = [pc EXCEPT ![t] = "rs_release"]
  /\ UNCHANGED << queue, loc, nextObj, made, compiled, hist, calls, svars >>

\* reset that also puts the entries back to Pending: value None, event clear
RsClear_Unready(t) ==
  /\ pc[t] = "rs_clear" /\ lock = 0
  /\ lock' = t
  /\ cache' = [k \in Keys |-> 0]
  /\ entries' = [e \in DOMAIN entries |-> [value |-> None, event |-> FALSE]]
  /\ gen' = gen + 1
  /\ pc' = [pc EXCEPT ![t] = "rs_release"]
  /\ UNCHANGED << queue, loc, nextObj, made, compiled, hist, calls, svars >>

\* lines 115-116: take the lock, self.cache.clear()
RsClear(t) ==
  /\ pc[t] = "rs_clear" /\ lock = 0
  /\ lock' = t
  /\ cache' = [k \in Keys |-> 0]
  /\ gen' = gen + 1
  /\ pc' = [pc EXCEPT ![t] = "rs_release"]
  /\ UNCHANGED << entries, queue, loc, nextObj, made, compiled, hist, calls, svars >>

\* the with block ends and reset returns
RsRelease(t) ==
  /\ pc[t] = "rs_release" /\ lock = t
  /\ lock' = 0
  /\ pc' = [pc EXCEPT ![t] = "idle"]
  /\ loc' = [loc EXCEPT ![t] = NoLoc]
  /\ UNCHANGED << cache, entries, queue, nextObj, gen, made, compiled, hist, calls, svars >>

\* ---------------------------------------------------------- specification
\* the steps of a thread inside a call
Step(t) ==
  \/ IvLookup(t) \/ IvRelease(t) \/ IvWait(t) \/ IvCompile(t) \/ IvSetEvent(t)
  \/ GcGet(t) \/ GcNone(t) \/ GcValue(t)
  \/ RsClear(t) \/ RsRelease(t)

Next ==
  \/ \E t \in Threads : Step(t)
  \/ \E t \in Workers : WorkerTake(t)
  \/ \E t \in Callers, k \in Keys : CallInitValue(t, k)
  \/ \E t \in Callers, k \in Keys : CallGetCachedValue(t, k)
  \/ \E t \in Callers : CallReset(t)
  \/ \E k \in Keys : GetFutureValue(k)

Spec == Init /\ [][Next]_vars

\* a thread inside a call keeps running, and the pool runs submitted tasks
FairSpec ==
  /\ Spec
  /\ \A t \in Threads : WF_vars(Step(t))
  /\ \A t \in Workers : WF_vars(WorkerTake(t))

\* ============================================== sampling/sampling_batch_info
\* SamplingBatchInfo holds one row per request of a batch in parallel tensors.
\* A tensor is modelled by the device it lives on and the sequence of its rows.
T(dev, rows) == [dev |-> dev, rows |-> rows]

\* tensor[indices]: the rows at the given indices, in the order of the indices
Index(t, indices) ==
  T(t.dev, [j \in 1..Len(indices) |-> t.rows[indices[j]]])

\* torch.concat([a, b]): the rows of a followed by the rows of b
Concat(a, b) == T(a.dev, a.rows \o b.rows)

\* ---------------------------------------------------------- the requests
\* Request r of the run carries its own sampling parameters; the numbers
\* stand for the floats (temperature, top_p, min_p) and differ from request
\* to request so that a row can be traced to its request.
Requests == 1..MaxReqs
Temperature(r) == 10 + r
TopP(r) == 20 + r
TopK(r) == IF r % 2 = 1 THEN 1 ELSE 40 + r
MinP(r) == IF r % 3 = 0 THEN 5 ELSE 0
\* the row of a logit bias tensor that belongs to request r
Bias(r) == 30 + r

\* the requests r+1 .. r+k in scheduling order: the reqs of a new batch
NewReqs(r, k) == [i \in 1..k |-> r + i]

\* -------------------------------------------------------- the penalizers
\* penaltylib is not part of the sources at hand.  An orchestrator is
\* modelled by the requests of its batch and the number of decoding steps
\* it has cumulated; which penalizers are prepared follows from the
\* requests' parameters.
PenalizerKinds == {"frequency", "min_new_tokens", "presence", "repetition"}

\* the penalizers request r needs
Needs(r) ==
  CASE r % 4 = 1 -> {}
    [] r % 4 = 2 -> {"repetition"}
    [] r % 4 = 3 -> {"frequency", "presence"}
    [] OTHER     -> {"min_new_tokens", "repetition"}

Orchestrator(reqs, cum) == [reqs |-> reqs, cum |-> cum]

\* penalizer.is_prepared()
IsPrepared(o, p) == \E i \in DOMAIN o.reqs : p \in Needs(o.reqs[i])

\* orchestrator.batch.batch_size()
BatchSize(o) == Len(o.reqs)

\* orchestrator.filter(unfinished_indices, new_indices)
OrchFilter(o, keep) ==
  Orchestrator([j \in 1..Len(keep) |-> o.reqs[keep[j]]], o.cum)

\* orchestrator.merge(their)
OrchMerge(o, their) ==
  Orchestrator(o.reqs \o their.reqs, o.cum + their.cum)

\* what a linear penalizer adds to every row of the logits
Weight(p) ==
  CASE p = "frequency" -> 1
    [] p = "min_new_tokens" -> 10
    [] p = "presence" -> 100
    [] OTHER -> 0

\* penalizer.apply(linear_penalties)
Apply(o, p, buf) == [buf EXCEPT !.val = @ + Weight(p) * (o.cum + 1)]

\* penalizer.cumulated_repetition_penalties
CumulatedRepetitionPenalties(o) ==
  [rows |-> BatchSize(o), cols |-> 1, val |-> 1000 + o.cum]

\* torch.zeros((bs, vocab_size))
Zeros(bs, vs) == [rows |-> bs, cols |-> vs, val |-> 0]

\* the order in which update_penalties meets the penalizers
PenalizerOrder == << "frequency", "min_new_tokens", "presence", "repetition" >>

\* ------------------------------------------------------ the grammar objects
\* The grammar objects are not part of the sources at hand.  A mask is
\* modelled by its shape and the set of rows a grammar has written; a row
\* that was not written permits every token.
Grammar(type) == [type |-> type]
GrammarTypes == {"xgrammar"}

\* grammar.allocate_vocab_mask(vocab_size, batch_size, device)
AllocateVocabMask(vs, bs, dev) ==
  [dev |-> dev, rows |-> bs, cols |-> vs, filled |-> {}]

\* grammar.fill_vocab_mask(vocab_mask, i)
FillVocabMask(mask, i) == [mask EXCEPT !.filled = @ \cup {i}]

\* --------------------------------------------------- from_schedule_batch
\* from_schedule_batch with any() in place of all() at line 76
FromScheduleBatch_AnyGreedy(reqs, vocab_size, disable_penalizer, device) ==
  [temperatures |-> T(device, [i \in DOMAIN reqs |-> Temperature(reqs[i])]),
   top_ps |-> T(device, [i \in DOMAIN reqs |-> TopP(reqs[i])]),
   top_ks |-> T(device, [i \in DOMAIN reqs |-> TopK(reqs[i])]),
   min_ps |-> T(device, [i \in DOMAIN reqs |-> MinP(reqs[i])]),
   need_min_p_sampling |-> \E i \in DOMAIN reqs : MinP(reqs[i]) > 0,
   is_all_greedy |-> \E i \in DOMAIN reqs : TopK(reqs[i]) <= 1,
   vocab_size |-> vocab_size,
   logit_bias |-> NoneT,
   vocab_mask |-> NoneT,
   apply_mask |-> NoneT,
   grammars |-> NoneT,
   penalizer_orchestrator |->
     IF disable_penalizer THEN NoneT ELSE Some(Orchestrator(reqs, 0)),
   linear_penalties |-> NoneT,
   scaling_penalties |-> NoneT,
   device |-> device]

\* lines 43-107: one row per request, in the order of batch.reqs
FromScheduleBatch(reqs, vocab_size, disable_penalizer, device) ==
  [temperatures |-> T(device, [i \in DOMAIN reqs |-> Temperature(reqs[i])]),
   top_ps |-> T(device, [i \in DOMAIN reqs |-> TopP(reqs[i])]),
   top_ks |-> T(device, [i \in DOMAIN reqs |-> TopK(reqs[i])]),
   min_ps |-> T(device, [i \in DOMAIN reqs |-> MinP(reqs[i])]),
   need_min_p_sampling |-> \E i \in DOMAIN reqs : MinP(reqs[i]) > 0,
   is_all_greedy |-> \A i \in DOMAIN reqs : TopK(reqs[i]) <= 1,
   vocab_size |-> vocab_size,
   logit_bias |-> NoneT,
   vocab_mask |-> NoneT,
   apply_mask |-> NoneT,
   grammars |-> NoneT,
   penalizer_orchestrator |->
     IF disable_penalizer THEN NoneT ELSE Some(Orchestrator(reqs, 0)),
   linear_penalties |-> NoneT,
   scaling_penalties |-> NoneT,
   device |-> device]

\* line 109-110: __len__
LenOf(s) == Len(s.temperatures.rows)

\* ------------------------------------------------------- update_penalties
\* lines 119-133: the loop over the penalizers; acc holds the two buffers
RECURSIVE PenaltyLoop(_, _, _, _)
PenaltyLoop(o, vs, ps, acc) ==
  IF ps = << >> THEN acc
  ELSE LET p == Head(ps)
           lin == IF acc.linear.some THEN acc.linear.v ELSE Zeros(BatchSize(o), vs)
       IN PenaltyLoop(o, vs, Tail(ps),
            IF ~IsPrepared(o, p) THEN acc
            ELSE IF p = "repetition"
              THEN [acc EXCEPT !.scaling = Some(CumulatedRepetitionPenalties(o))]
              ELSE [acc EXCEPT !.linear = Some(Apply(o, p, lin))])

\* update_penalties without lines 116-117: the loop starts from the buffers
\* of the previous call
UpdatePenalties_NoReset(s) ==
  IF ~s.penalizer_orchestrator.some THEN s
  ELSE LET acc == PenaltyLoop(s.penalizer_orchestrator.v, s.vocab_size, PenalizerOrder,
                              [scaling |-> s.scaling_penalties,
                               linear |-> s.linear_penalties])
       IN [s EXCEPT !.scaling_penalties = acc.scaling,
                    !.linear_penalties = acc.linear]

\* lines 112-133
UpdatePenalties(s) ==
  IF ~s.penalizer_orchestrator.some THEN s
  ELSE LET acc == PenaltyLoop(s.penalizer_orchestrator.v, s.vocab_size, PenalizerOrder,
                              [scaling |-> NoneT, linear |-> NoneT])
       IN [s EXCEPT !.scaling_penalties = acc.scaling,
                    !.linear_penalties = acc.linear]

\* ------------------------------------------------ update_regex_vocab_mask
\* line 136: the grammar list is there and holds at least one grammar
HasGrammar(s) ==
  s.grammars.some /\ \E i \in DOMAIN s.grammars.v : s.grammars.v[i].some

\* the rows of the grammar list that hold a grammar, in ascending order
RECURSIVE GrammarRows(_, _)
GrammarRows(gs, i) ==
  IF i > Len(gs) THEN << >>
  ELSE (IF gs[i].some THEN << i >> ELSE << >>) \o GrammarRows(gs, i + 1)

\* lines 152-154: fill_vocab_mask for the rows in is, in order
RECURSIVE FillLoop(_, _)
FillLoop(mask, is) ==
  IF is = << >> THEN mask ELSE FillLoop(FillVocabMask(mask, Head(is)), Tail(is))

\* the calls of lines 145 and 152-154 on the grammar objects, in order
MaskCalls(s, is) ==
  << [f |-> "allocate_vocab_mask", arg |-> LenOf(s)] >>
  \o [j \in 1..Len(is) |-> [f |-> "fill_vocab_mask", arg |-> is[j]]]

\* update_regex_vocab_mask that keeps the mask of the previous step when no
\* grammar is active
UpdateRegexVocabMask_KeepStale(s) ==
  IF ~HasGrammar(s) THEN [s |-> s, calls |-> << >>]
  ELSE LET is == GrammarRows(s.grammars.v, 1)
           grammar == s.grammars.v[Head(is)].v
       IN [s |-> [s EXCEPT
                    !.vocab_mask = Some(FillLoop(
                        AllocateVocabMask(s.vocab_size, LenOf(s), s.device), is)),
                    !.apply_mask = Some(grammar.type)],
           calls |-> MaskCalls(s, is)]

\* update_regex_vocab_mask that fills every row of the grammar list
UpdateRegexVocabMask_FillAll(s) ==
  IF ~HasGrammar(s)
    THEN [s |-> [s EXCEPT !.vocab_mask = NoneT, !.apply_mask = NoneT],
          calls |-> << >>]
  ELSE LET is == [i \in 1..Len(s.grammars.v) |-> i]
           grammar == s.grammars.v[Head(GrammarRows(s.grammars.v, 1))].v
       IN [s |-> [s EXCEPT
                    !.vocab_mask = Some(FillLoop(
                        AllocateVocabMask(s.vocab_size, LenOf(s), s.device), is)),
                    !.apply_mask = Some(grammar.type)],
           calls |-> MaskCalls(s, is)]

\* lines 135-154: the state after the call and the calls made on the grammar
\* objects.  Row i of the model is row i - 1 of the code.
UpdateRegexVocabMask(s) ==
  IF ~HasGrammar(s)
    THEN [s |-> [s EXCEPT !.vocab_mask = NoneT, !.apply_mask = NoneT],
          calls |-> << >>]
  ELSE LET is == GrammarRows(s.grammars.v, 1)
           grammar == s.grammars.v[Head(is)].v
       IN [s |-> [s EXCEPT
                    !.vocab_mask = Some(FillLoop(
                        AllocateVocabMask(s.vocab_size, LenOf(s), s.device), is)),
                    !.apply_mask = Some(grammar.type)],
           calls |-> MaskCalls(s, is)]

\* ----------------------------------------------------------- filter_batch
\* line 169 for one item: value[new_indices] when the item is there
FilterItem(value, keep) ==
  IF value.some THEN Some(Index(value.v, keep)) ELSE value

\* filter_batch that keeps the rows in their old order whatever the order of
\* the indices
RECURSIVE Ascending(_, _, _)
Ascending(keep, i, n) ==
  IF i > n THEN << >>
  ELSE (IF \E j \in DOMAIN keep : keep[j] = i THEN << i >> ELSE << >>)
       \o Ascending(keep, i + 1, n)

FilterBatch_Ascending(s, keep) ==
  LET k == Ascending(keep, 1, LenOf(s)) IN
  [s EXCEPT
     !.penalizer_orchestrator =
        IF @.some THEN Some(OrchFilter(@.v, keep)) ELSE @,
     !.temperatures = Index(@, k),
     !.top_ps = Index(@, k),
     !.top_ks = Index(@, k),
     !.min_ps = Index(@, k),
     !.logit_bias = FilterItem(@, k)]

\* filter_batch without "top_ks" in its list of items
FilterBatch_SkipTopKs(s, keep) ==
  [s EXCEPT
     !.penalizer_orchestrator =
        IF @.some THEN Some(OrchFilter(@.v, keep)) ELSE @,
     !.temperatures = Index(@, keep),
     !.top_ps = Index(@, keep),
     !.min_ps = Index(@, keep),
     !.logit_bias = FilterItem(@, keep)]

\* lines 156-169
FilterBatch(s, keep) ==
  [s EXCEPT
     !.penalizer_orchestrator =
        IF @.some THEN Some(OrchFilter(@.v, keep)) ELSE @,
     !.temperatures = Index(@, keep),
     !.top_ps = Index(@, keep),
     !.top_ks = Index(@, keep),
     !.min_ps = Index(@, keep),
     !.logit_bias = FilterItem(@, keep)]

\* ------------------------------------------------------ merge_bias_tensor
\* the outcome of a call that raises
TypeError == [some |-> FALSE, raised |-> "TypeError"]

\* torch.empty((bs, *shape)).fill_(default): bs rows of the default
Fill(dev, bs, default) == T(dev, [i \in 1..bs |-> default])

\* line 187: `with torch.dtype(dtype):` calls the class torch.dtype, which
\* cannot be instantiated (and is no context manager): the call raises
\* TypeError before the body of the with statement runs
TorchDtypeRaises == TRUE

\* lines 171-194
MergeBiasTensor(lhs, rhs, bs1, bs2, device, default) ==
  IF lhs.some \/ rhs.some
    THEN IF TorchDtypeRaises THEN TypeError
         ELSE Some(Concat(IF lhs.some THEN lhs.v ELSE Fill(device, bs1, default),
                          IF rhs.some THEN rhs.v ELSE Fill(device, bs2, default)))
    ELSE NoneT

\* ------------------------------------------------------------ merge_batch
\* lines 197-210: the penalizers, the four tensors and is_all_greedy
MergeRows(s, other) ==
  [s EXCEPT
     !.penalizer_orchestrator =
        IF @.some THEN Some(OrchMerge(@.v, other.penalizer_orchestrator.v)) ELSE @,
     !.temperatures = Concat(@, other.temperatures),
     !.top_ps = Concat(@, other.top_ps),
     !.top_ks = Concat(@, other.top_ks),
     !.min_ps = Concat(@, other.min_ps),
     !.is_all_greedy = @ /\ other.is_all_greedy]

\* merge_batch that takes the flag of the other batch alone
MergeBatch_EitherGreedy(s, other) ==
  LET m == [MergeRows(s, other) EXCEPT
              !.is_all_greedy = s.is_all_greedy \/ other.is_all_greedy]
      bias == MergeBiasTensor(s.logit_bias, other.logit_bias,
                              LenOf(m), LenOf(other), s.device, 0)
  IN IF bias = TypeError THEN [s |-> m, raised |-> TRUE]
     ELSE [s |-> [m EXCEPT !.logit_bias = bias], raised |-> FALSE]

MergeBatch_OtherGreedy(s, other) ==
  LET m == [MergeRows(s, other) EXCEPT !.is_all_greedy = other.is_all_greedy]
      bias == MergeBiasTensor(s.logit_bias, other.logit_bias,
                              LenOf(m), LenOf(other), s.device, 0)
  IN IF bias = TypeError THEN [s |-> m, raised |-> TRUE]
     ELSE [s |-> [m EXCEPT !.logit_bias = bias], raised |-> FALSE]

\* lines 196-213: the state after the call and whether the call raised.
\* len(self) at line 212 is evaluated after line 208 has replaced
\* self.temperatures, so it is the row count after the merge.
MergeBatch(s, other) ==
  LET m == MergeRows(s, other)
      bias == MergeBiasTensor(s.logit_bias, other.logit_bias,
                              LenOf(m), LenOf(other), s.device, 0)
  IN IF bias = TypeError THEN [s |-> m, raised |-> TRUE]
     ELSE [s |-> [m EXCEPT !.logit_bias = bias], raised |-> FALSE]

\* ------------------------------------------------------------------- copy
\* lines 215-225: the fields not passed to the constructor take the defaults
\* of lines 30-41
SbCopy(s) ==
  [temperatures |-> s.temperatures,
   top_ps |-> s.top_ps,
   top_ks |-> s.top_ks,
   min_ps |-> s.min_ps,
   is_all_greedy |-> s.is_all_greedy,
   need_min_p_sampling |-> s.need_min_p_sampling,
   vocab_size |-> s.vocab_size,
   logit_bias |-> NoneT,
   vocab_mask |-> NoneT,
   apply_mask |-> NoneT,
   grammars |-> NoneT,
   penalizer_orchestrator |-> NoneT,
   linear_penalties |-> NoneT,
   scaling_penalties |-> NoneT,
   device |-> s.device]

\* --------------------------------------------------------------------- to
\* the compute placements a batch is moved between
Devices == {"cuda", "cpu"}

\* value.to(device, non_blocking=True): the same rows, placed on device
TensorTo(t, device) == T(device, t.rows)

\* lines 227-235: the four tensors of the list are moved; logit_bias and the
\* field device are not written
To(s, device) ==
  [s EXCEPT
     !.temperatures = TensorTo(@, device),
     !.top_ps = TensorTo(@, device),
     !.top_ks = TensorTo(@, device),
     !.min_ps = TensorTo(@, device)]

\* ------------------------------------------- operations on the batches
\* the record kept of the last operation
Last(op, on, pre, other, keep, raised, made_calls) ==
  [op |-> op, on |-> on, pre |-> pre, other |-> other, keep |-> keep,
   raised |-> raised, calls |-> made_calls, device |-> "none"]

\* the request a row of temperatures belongs to
ReqOf(temperature) == temperature - 10

\* the requests of batch s, row by row
ReqsOf(s) == [i \in 1..LenOf(s) |-> ReqOf(s.temperatures.rows[i])]

\* the index lists filter_batch is called with on n rows: some rows, each
\* once, in any order
Keeps(n) ==
  { q \in UNION { [1..m -> 1..n] : m \in 1..n } :
      \A i \in DOMAIN q : \A j \in DOMAIN q : q[i] = q[j] => i = j }

\* the grammar lists the scheduler assigns to a batch of n rows: None, the
\* empty list, or one entry per row, a grammar or None
GrammarLists(n) ==
  {NoneT, Some(<< >>)}
  \cup { Some(gs) : gs \in [1..n -> {NoneT} \cup {Some(Grammar(ty)) : ty \in GrammarTypes}] }

\* every index list and every grammar list of a run
AllKeeps == Keeps(MaxReqs)
AllGrammarLists == UNION { GrammarLists(n) : n \in 1..MaxReqs }

\* keep is an index list for n rows, gs a grammar list for n rows
IsKeep(keep, n) == \A i \in DOMAIN keep : keep[i] <= n
IsGrammarList(gs, n) == gs.some => Len(gs.v) \in {0, n}

\* the batches an operation is called on, and the batch merged into them
Targets == {"self", "copy"}

\* an exception of an operation leaves the scheduler's loop: nothing is
\* called on the batches after it
Running == ~slast.raised

\* an operation on batch b that leaves new in its place
Operate(b, new, last) ==
  /\ Running
  /\ nops < MaxOps
  /\ nops' = nops + 1
  /\ sb' = [sb EXCEPT ![b] = Some(new)]
  /\ slast' = last
  /\ UNCHANGED cvars

\* the scheduler builds a batch of k new requests: "self" first, then the
\* batches merged into it, all with the server's disable_penalizer setting
DoFromScheduleBatch(b, k, disable_penalizer) ==
  /\ Running
  /\ b \in {"self", "other"}
  /\ k \in 1..(MaxReqs - nreq)
  /\ IF b = "self" THEN ~sb["self"].some
     ELSE /\ sb["self"].some
          /\ disable_penalizer = ~sb["self"].v.penalizer_orchestrator.some
  /\ nreq' = nreq + k
  /\ sb' = [sb EXCEPT ![b] =
              Some(FromScheduleBatch(NewReqs(nreq, k), VocabSize,
                                     disable_penalizer, "cuda"))]
  /\ slast' = Last("from_schedule_batch", b, NoneT, NoneT, << >>, FALSE, << >>)
  /\ UNCHANGED << nops, cvars >>

\* the owner of a new batch sets the field logit_bias (line 30): one row
\* per request of the batch
DoAssignLogitBias(b) ==
  /\ Running
  /\ slast.op = "from_schedule_batch" /\ slast.on = b
  /\ sb[b].some /\ ~sb[b].v.logit_bias.some
  /\ sb' = [sb EXCEPT ![b].v.logit_bias =
              Some(T(sb[b].v.device,
                     [i \in 1..LenOf(sb[b].v) |-> Bias(ReqsOf(sb[b].v)[i])]))]
  /\ slast' = Last("logit_bias", b, sb[b], NoneT, << >>, FALSE, << >>)
  /\ UNCHANGED << nreq, nops, cvars >>

\* a decoding step: the orchestrator cumulates the new output tokens
DoCumulate(b) ==
  /\ b = "self" /\ sb[b].some /\ sb[b].v.penalizer_orchestrator.some
  /\ Operate(b, [sb[b].v EXCEPT !.penalizer_orchestrator.v.cum = @ + 1],
             Last("cumulate", b, sb[b], NoneT, << >>, FALSE, << >>))
  /\ UNCHANGED nreq

DoUpdatePenalties(b) ==
  /\ b \in Targets /\ sb[b].some
  /\ Operate(b, UpdatePenalties(sb[b].v),
             Last("update_penalties", b, sb[b], NoneT, << >>, FALSE, << >>))
  /\ UNCHANGED nreq

\* Before a forward pass the scheduler sets the field grammars (line 33) of
\* its batch for the rows the batch has now, to gs; a copy keeps the None it
\* was made with.  Then update_regex_vocab_mask is called.
DoUpdateRegexVocabMask(b, gs) ==
  /\ b \in Targets /\ sb[b].some
  /\ IF b = "self" THEN IsGrammarList(gs, LenOf(sb[b].v)) ELSE gs = sb[b].v.grammars
  /\ LET pre == [sb[b].v EXCEPT !.grammars = gs]
         r == UpdateRegexVocabMask(pre)
     IN Operate(b, r.s,
                Last("update_regex_vocab_mask", b, Some(pre), NoneT, << >>, FALSE, r.calls))
  /\ UNCHANGED nreq

DoFilterBatch(b, keep) ==
  /\ b \in Targets /\ sb[b].some
  /\ IsKeep(keep, LenOf(sb[b].v))
  /\ Operate(b, FilterBatch(sb[b].v, keep),
             Last("filter_batch", b, sb[b], NoneT, keep, FALSE, << >>))
  /\ UNCHANGED nreq

\* b.merge_batch(other): the two batches hold different requests on the
\* same device, and other has an orchestrator when b has one
DoMergeBatch(b) ==
  /\ b \in Targets /\ sb[b].some /\ sb["other"].some
  /\ \A i \in 1..LenOf(sb[b].v) : \A j \in 1..LenOf(sb["other"].v) :
       ReqsOf(sb[b].v)[i] # ReqsOf(sb["other"].v)[j]
  /\ sb[b].v.penalizer_orchestrator.some => sb["other"].v.penalizer_orchestrator.some
  /\ sb[b].v.temperatures.dev = sb["other"].v.temperatures.dev
  /\ LET r == MergeBatch(sb[b].v, sb["other"].v) IN
       Operate(b, r.s,
               Last("merge_batch", b, sb[b], sb["other"], << >>, r.raised, << >>))
  /\ UNCHANGED nreq

\* b.to(device), to another device than the one the rows are on
DoTo(b, device) ==
  /\ b \in Targets /\ sb[b].some
  /\ device \in Devices /\ device # sb[b].v.temperatures.dev
  /\ Operate(b, To(sb[b].v, device),
             [Last("to", b, sb[b], NoneT, << >>, FALSE, << >>)
                EXCEPT !.device = device])
  /\ UNCHANGED nreq

DoCopy ==
  /\ sb["self"].some
  /\ Operate("copy", SbCopy(sb["self"].v),
             Last("copy", "copy", sb["self"], NoneT, << >>, FALSE, << >>))
  /\ UNCHANGED nreq

\* ------------------------------------------- specifications of the batches
\* every operation of SamplingBatchInfo, on the batch and on its copy
SamplingNext ==
  \/ \E b \in BatchNames : \E k \in 1..MaxReqs : \E d \in BOOLEAN :
       DoFromScheduleBatch(b, k, d)
  \/ \E b \in BatchNames : DoAssignLogitBias(b)
  \/ \E b \in BatchNames : DoCumulate(b)
  \/ \E b \in BatchNames : DoUpdatePenalties(b)
  \/ \E b \in BatchNames : \E gs \in AllGrammarLists : DoUpdateRegexVocabMask(b, gs)
  \/ \E b \in BatchNames : \E keep \in AllKeeps : DoFilterBatch(b, keep)
  \/ \E b \in BatchNames : DoMergeBatch(b)
  \/ \E b \in BatchNames : \E device \in Devices : DoTo(b, device)
  \/ DoCopy

SamplingSpec == Init /\ [][SamplingNext]_vars


\* from_schedule_batch, filter_batch and merge_batch alone, on the
\* scheduler's batch
BatchNext ==
  \/ \E b \in BatchNames : \E k \in 1..MaxReqs : \E d \in BOOLEAN :
       DoFromScheduleBatch(b, k, d)
  \/ \E keep \in AllKeeps : DoFilterBatch("self", keep)
  \/ DoMergeBatch("self")

BatchSpec == Init /\ [][BatchNext]_vars

\* ================================================================ claims
\* the calls of _init_value that have ended, directly or through a future
Ends == BagToSet(hist)
InitOps == {"init", "future"}

\* the entries inserted for key k in generation g
EntriesOf(k, g) == {e \in DOMAIN made : made[e].key = k /\ made[e].gen = g}

\* the compile runs for the entries inserted for key k in generation g
RunsFor(k, g) ==
  UNION { { <<e, i>> : i \in DOMAIN compiled[e] } : e \in EntriesOf(k, g) }

\* the compile runs for key k that ran while generation g was current
RunsIn(k, g) ==
  UNION { { <<e, i>> : i \in {j \in DOMAIN compiled[e] : compiled[e][j] = g} } :
          e \in {d \in DOMAIN made : made[d].key = k} }

\* r is what `v.copy() if v else None` gives for the stored value v
IsCopyOrNone(r, v) ==
  IF v = None THEN r = None
  ELSE r.tag = "obj" /\ r.src = v.src /\ r.id # v.id

\* the compile of key k ends without an exception
Normal(k) == InitValueDispatch(k, 1) # Raised

\* C1 as stated: between two consecutive reset() calls the compile routine
\* runs at most once for a key.
C1_Original ==
  \A k \in Keys : \A g \in 0..gen : Cardinality(RunsIn(k, g)) <= 1

\* C1, amended: among the callers whose table lookup falls in one generation
\* at most one runs the compile for a key: a key has at most one entry per
\* generation, an entry is compiled at most once, and only the caller that
\* inserted the entry compiles, a caller that found it only waits.
C1_OncePerGeneration ==
  /\ \A k \in Keys : \A g \in 0..gen :
       /\ Cardinality(EntriesOf(k, g)) <= 1
       /\ Cardinality(RunsFor(k, g)) <= 1
  /\ \A t \in Threads :
       /\ pc[t] \in {"iv_compile", "iv_set"} => ~loc[t].hit
       /\ loc[t].hit => pc[t] \in {"iv_release", "iv_wait"}
  /\ \A h \in Ends : h.op \in InitOps /\ h.hit => h.res # Raised

\* a compile of an entry made before a reset has run after that reset, in the
\* same generation as the compile of the entry made for the key after it
C1_Witness ==
  \E e1 \in DOMAIN made : \E e2 \in DOMAIN made :
    /\ made[e1].key = made[e2].key /\ made[e1].gen < made[e2].gen
    /\ compiled[e1] = << made[e2].gen >> /\ compiled[e2] = << made[e2].gen >>

\* C2 as stated: when the compile of a key raises, the key's entry still
\* becomes Ready (event set) with an absent value, so that no waiter blocks
\* forever.
C2_RaiseStillReady ==
  \A h \in Ends :
    h.op \in InitOps /\ h.res = Raised =>
      entries[h.entry].event /\ entries[h.entry].value = None

\* what the ended calls of _init_value returned is a copy of the value stored
\* in their entry, or None when that value is None
C3_Results ==
  \A h \in Ends :
    h.op \in InitOps /\ h.res # Raised => IsCopyOrNone(h.res, entries[h.entry].value)

\* C3: under fair scheduling every _init_value call for a key whose compile
\* ends normally returns, the compiling caller and the waiters alike, and it
\* returns a copy of the value stored in its entry, or None when that is None.
C3_EveryCallReturns ==
  /\ \A t \in Threads :
       (loc[t].op \in InitOps /\ Normal(loc[t].key)) ~> (pc[t] = "idle")
  /\ []C3_Results

\* a caller that found the entry has returned a copy of the compiled value
C3_Witness ==
  \E h \in Ends : h.op \in InitOps /\ h.hit /\ h.res.tag = "obj"

\* the calls of _init_value for key k with lookup in generation g that returned
Returned(k, g) ==
  {h \in Ends : h.op \in InitOps /\ h.key = k /\ h.gen = g /\ h.res # Raised}

\* the calls of _init_value for key k with lookup in generation g that ended,
\* by a return or by an exception
EndedFor(k, g) ==
  {h \in Ends : h.op \in InitOps /\ h.key = k /\ h.gen = g}

\* the results in R are all None, or all copies of one stored value and no two
\* of them the same object
Uniform(R) ==
  \/ \A h \in R : h.res = None
  \/ /\ \A h \in R : h.res.tag = "obj" /\ CopiesIn(h, hist) = 1
     /\ \A h1 \in R : \A h2 \in R :
          /\ h1.res.src = h2.res.src
          /\ h1 # h2 => h1.res.id # h2.res.id

\* C4 as stated: the _init_value calls for one key (of a recognised kind) in
\* one generation are served by exactly one compile, and the results of all
\* of them are uniform: all None, or all copies of the same stored value, no
\* two of them the same object.
C4_OneCompileUniformResults ==
  \A k \in Keys : \A g \in 0..gen :
    k[1] \in Kinds /\ EndedFor(k, g) # {} =>
      /\ Cardinality(RunsFor(k, g)) = 1
      /\ Uniform(EndedFor(k, g))

\* the part of C4 that the code keeps: the same, for the calls that returned
C4_WhenCompileReturns ==
  \A k \in Keys : \A g \in 0..gen :
    Returned(k, g) # {} =>
      /\ Cardinality(RunsFor(k, g)) = 1
      /\ Uniform(Returned(k, g))

\* C5: no object returned by _init_value, by get_cached_value or through a
\* future is the instance stored in a cache entry; every result that is not
\* None is a fresh copy, also the one of the caller that compiled.
C5_NeverCanonical ==
  \A h \in Ends :
    h.res.tag = "obj" =>
      /\ h.res.id # h.res.src
      /\ \A e \in DOMAIN entries : entries[e].value.id # h.res.id

\* the compiling caller, a future and get_cached_value have each returned an
\* object
C5_Witness ==
  /\ \E h \in Ends : h.op = "init" /\ ~h.hit /\ h.res.tag = "obj"
  /\ \E h \in Ends : h.op = "future" /\ h.res.tag = "obj"
  /\ \E h \in Ends : h.op = "cached" /\ h.res.tag = "obj"

Stale(t) ==
  /\ loc[t].op \in InitOps /\ loc[t].entry # 0
  /\ loc[t].lgen < gen /\ Normal(loc[t].key)

\* a reset changes no entry, so it neither sets nor withdraws an event or value
C7_ResetStep == gen' # gen => entries' = entries

\* what a call that captured its entry before a reset returns after it
C7_Results ==
  \A h \in Ends :
    h.op \in InitOps /\ h.gen < h.at /\ h.res # Raised =>
      /\ made[h.entry].gen = h.gen
      /\ entries[h.entry].event
      /\ IsCopyOrNone(h.res, entries[h.entry].value)

\* C7: a reset while a compile is in flight neither cancels the compile nor
\* strands its waiters: the reset leaves every entry as it is, and every
\* caller that captured an entry before the reset returns, under fair
\* scheduling, a copy of the value the compile stored in that entry (or None).
C7_ResetKeepsWaiters ==
  /\ \A t \in Threads : Stale(t) ~> (pc[t] = "idle")
  /\ [][C7_ResetStep]_vars
  /\ []C7_Results

\* a caller that found a Pending entry before a reset has returned an object
\* after the reset, from a compile that ran after the reset
C7_Witness ==
  \E h \in Ends :
    /\ h.op \in InitOps /\ h.hit /\ h.gen < h.at /\ h.res.tag = "obj"
    /\ compiled[h.entry] # << >> /\ compiled[h.entry][1] > h.gen

\* the table holds only entries of the current generation, and a lookup uses
\* only an entry of the generation it runs in
C8_State ==
  /\ \A k \in Keys :
       cache[k] # 0 => made[cache[k]] = [key |-> k, gen |-> gen]
  /\ \A t \in Threads :
       loc[t].entry # 0 => made[loc[t].entry] = [key |-> loc[t].key, gen |-> loc[t].lgen]
  /\ \A h \in Ends :
       h.entry # 0 =>
         /\ made[h.entry] = [key |-> h.key, gen |-> h.gen]
         /\ h.res.tag = "obj" => h.res.src = entries[h.entry].value.src

\* an entry is written only by the thread that inserted it
C8_Step ==
  \A e \in DOMAIN entries :
    entries'[e] # entries[e] =>
      \E t \in Threads :
        /\ pc'[t] # pc[t] /\ loc[t].op \in InitOps
        /\ loc[t].entry = e /\ ~loc[t].hit

\* C8: a lookup that starts after a reset never sees an entry or a value made
\* before it: the table and every lookup hold entries of the current
\* generation only, and a compile writes only into the entry its caller
\* inserted, never into the table or into another entry of the same key.
C8_NoStaleEntry == []C8_State /\ [][C8_Step]_vars

\* the compile of an entry made before a reset has stored its value after the
\* entry made for the same key after the reset was compiled and is in the table
C8_Witness ==
  \E e1 \in DOMAIN made : \E e2 \in DOMAIN made :
    /\ made[e1].key = made[e2].key /\ made[e1].gen < made[e2].gen
    /\ cache[made[e2].key] = e2
    /\ entries[e1].value # None /\ entries[e2].value # None
    /\ entries[e1].value.id > entries[e2].value.id

\* a step of get_cached_value changes neither the table nor an entry nor the
\* executor's queue, reads the value only of a Ready entry and returns its
\* copy, and returns None for a missing or Pending entry
C9_Step ==
  \A t \in Threads :
    loc[t].op = "cached" /\ pc'[t] # pc[t] =>
      /\ cache' = cache /\ entries' = entries /\ queue' = queue
      /\ made' = made /\ compiled' = compiled
      /\ pc[t] = "gc_get" =>
           /\ pc'[t] \in {"gc_none", "gc_value"}
           /\ pc'[t] = "gc_value" <=>
                (cache[loc[t].key] # 0 /\ entries[cache[loc[t].key]].event)
      /\ pc[t] = "gc_none" => hist' = hist (+) SetToBag({Ended(t, None)})
      /\ pc[t] = "gc_value" =>
           \E h \in BagToSet(hist') :
             /\ CopiesIn(h, hist') = CopiesIn(h, hist) + 1
             /\ h.op = "cached" /\ h.key = loc[t].key
             /\ IsCopyOrNone(h.res, entries[cache[loc[t].key]].value)

\* get_cached_value waits for nothing but the lock
C9_State ==
  \A t \in Threads :
    loc[t].op = "cached" =>
      /\ pc[t] \in {"gc_get", "gc_none", "gc_value"}
      /\ pc[t] # "gc_get" => lock = t
      /\ (pc[t] # "gc_get" \/ lock = 0) => ENABLED Step(t)

\* C9: get_cached_value never waits on a compile and never changes the cache:
\* None for a key without entry or with a Pending entry, a copy of the stored
\* value (or None) for a Ready entry, no entry inserted, no compile started,
\* the table and every entry unchanged.
C9_PeekOnly == []C9_State /\ [][C9_Step]_vars

\* get_cached_value has returned None for a Pending entry and an object for a
\* Ready one
C9_Witness ==
  /\ \E h \in Ends : h.op = "cached" /\ h.entry # 0 /\ h.res = None /\ Normal(h.key)
                     /\ entries[h.entry].value # None
  /\ \E h \in Ends : h.op = "cached" /\ h.res.tag = "obj"

\* C10 as stated: every _init_value call with a key whose kind is not one of
\* json, regex, ebnf, structural_tag ends in the error; none returns a value
\* and none blocks, so none waits on an entry whose compile has raised.
C10_InvalidKindAlwaysRaises ==
  /\ \A h \in Ends :
       h.op \in InitOps /\ h.key[1] \notin Kinds => h.res = Raised
  /\ \A t \in Threads :
       loc[t].op \in InitOps /\ loc[t].key[1] \notin Kinds =>
         ~(/\ pc[t] = "iv_wait"
           /\ \E h \in Ends : h.entry = loc[t].entry /\ h.res = Raised)

\* the backend gives None for key k: the kind is recognised, the grammar is
\* not supported
SoftFails(k) == InitValueDispatch(k, 1) = None

\* C11: a compile that gives None for a recognised kind is memoized like any
\* other result: the entry becomes Ready with the value None, every call of
\* _init_value with the key returns None and none raises, and the compile
\* runs once per generation for the key however many calls are made: a call
\* that finds the entry returns None without a compile of its own.
C11_SoftFailureMemoized ==
  \A k \in Keys : SoftFails(k) =>
    /\ \A h \in Ends : h.op \in InitOps /\ h.key = k => h.res = None
    /\ \A e \in DOMAIN made : made[e].key = k =>
         /\ entries[e].value = None
         /\ entries[e].event => Len(compiled[e]) = 1
    /\ \A g \in 0..gen :
         /\ Cardinality(EntriesOf(k, g)) <= 1
         /\ Cardinality(RunsFor(k, g)) <= 1
    /\ \A h \in Ends : h.op \in InitOps /\ h.key = k =>
         /\ entries[h.entry].event
         /\ Len(compiled[h.entry]) = 1
    /\ \A t \in Threads : loc[t].key = k /\ loc[t].hit =>
         pc[t] \in {"iv_release", "iv_wait"}

\* two calls for a key whose compile gives None have returned None in one
\* generation from one entry, the second from the table, after one compile
C11_Witness ==
  \E h1 \in Ends : \E h2 \in Ends :
    /\ SoftFails(h1.key) /\ h1.op \in InitOps /\ h2.op \in InitOps
    /\ h1.key = h2.key /\ h1.gen = h2.gen /\ h1.entry = h2.entry
    /\ ~h1.hit /\ h2.hit
    /\ h1.res = None /\ h2.res = None
    /\ entries[h1.entry].event /\ entries[h1.entry].value = None
    /\ Cardinality(RunsFor(h1.key, h1.gen)) = 1

\* ------------------------------------------------- claims on the batches
\* the batches there are
Batches == {b \in BatchNames : sb[b].some}

\* the rows of batch s belong to one request each: row i of every tensor
\* holds the parameter of the same request
RowsOfOneRequest(s) ==
  \A i \in 1..LenOf(s) : \E r \in Requests :
    /\ s.temperatures.rows[i] = Temperature(r)
    /\ s.top_ps.rows[i] = TopP(r)
    /\ s.top_ks.rows[i] = TopK(r)
    /\ s.min_ps.rows[i] = MinP(r)
    /\ s.logit_bias.some => s.logit_bias.v.rows[i] = Bias(r)

\* every per-row array of batch s has len(s) rows
SameRowCount(s) ==
  /\ Len(s.top_ps.rows) = LenOf(s)
  /\ Len(s.top_ks.rows) = LenOf(s)
  /\ Len(s.min_ps.rows) = LenOf(s)
  /\ s.logit_bias.some => Len(s.logit_bias.v.rows) = LenOf(s)
  /\ s.grammars.some => Len(s.grammars.v) = LenOf(s)

RowsAt(q, p, keep) ==
  /\ Len(q) = Len(keep)
  /\ \A j \in 1..Len(keep) : q[j] = p[keep[j]]

\* C13: filter_batch(keep) replaces temperatures, top_ps, top_ks, min_ps and
\* the logit bias, when there is one, by the rows at the indices of keep, in
\* exactly the order of keep.
C13_FilterInKeepOrder ==
  slast.op = "filter_batch" =>
    LET pre == slast.pre.v
        s == sb[slast.on].v
    IN /\ RowsAt(s.temperatures.rows, pre.temperatures.rows, slast.keep)
       /\ RowsAt(s.top_ps.rows, pre.top_ps.rows, slast.keep)
       /\ RowsAt(s.top_ks.rows, pre.top_ks.rows, slast.keep)
       /\ RowsAt(s.min_ps.rows, pre.min_ps.rows, slast.keep)
       /\ s.logit_bias.some = pre.logit_bias.some
       /\ pre.logit_bias.some =>
            RowsAt(s.logit_bias.v.rows, pre.logit_bias.v.rows, slast.keep)

\* keep = [2, 0] of the code on the rows [A, B, C], with a logit bias, has
\* given [C, A]
C13_Witness ==
  /\ slast.op = "filter_batch" /\ slast.keep = << 3, 1 >>
  /\ ReqsOf(slast.pre.v) = << 1, 2, 3 >>
  /\ slast.pre.v.logit_bias.some
  /\ ReqsOf(sb[slast.on].v) = << 3, 1 >>
  /\ sb[slast.on].v.logit_bias.v.rows = << Bias(3), Bias(1) >>

\* C14 as stated: merge_batch makes every tracked per-row array of self,
\* temperatures, top_ps, top_ks, min_ps and the logit bias the two batches
\* carry, equal to the rows self had before followed by the rows of other,
\* and leaves the arrays of other as they were.
C14_MergeConcatenates ==
  slast.op = "merge_batch" =>
    LET pre == slast.pre.v
        other == slast.other.v
        s == sb[slast.on].v
    IN /\ s.temperatures.rows = pre.temperatures.rows \o other.temperatures.rows
       /\ s.top_ps.rows = pre.top_ps.rows \o other.top_ps.rows
       /\ s.top_ks.rows = pre.top_ks.rows \o other.top_ks.rows
       /\ s.min_ps.rows = pre.min_ps.rows \o other.min_ps.rows
       /\ pre.logit_bias.some /\ other.logit_bias.some =>
            /\ s.logit_bias.some
            /\ s.logit_bias.v.rows = pre.logit_bias.v.rows \o other.logit_bias.v.rows
       /\ sb["other"] = slast.other

\* the part of C14 the code keeps: the four tensors of lines 200-208 are
\* concatenated, self first, and other is left as it was, whether or not the
\* call goes on to raise at line 211
C14_FourTensors ==
  slast.op = "merge_batch" =>
    LET pre == slast.pre.v
        other == slast.other.v
        s == sb[slast.on].v
    IN /\ s.temperatures.rows = pre.temperatures.rows \o other.temperatures.rows
       /\ s.top_ps.rows = pre.top_ps.rows \o other.top_ps.rows
       /\ s.top_ks.rows = pre.top_ks.rows \o other.top_ks.rows
       /\ s.min_ps.rows = pre.min_ps.rows \o other.min_ps.rows
       /\ sb["other"] = slast.other

\* n rows of zeros
ZeroRows(n) == [i \in 1..n |-> 0]

\* C15 as stated: in merge_batch a logit bias present on one side only is
\* completed by a block of zeros with the row count the missing side had
\* before the merge, so the merged bias has len(self before) + len(other)
\* rows with the rows of the present side at that side's positions; a bias
\* absent on both sides stays absent; none of these calls raises.
C15_BiasZeroPadded ==
  slast.op = "merge_batch" =>
    LET pre == slast.pre.v
        other == slast.other.v
        s == sb[slast.on].v
    IN /\ ~slast.raised
       /\ ~pre.logit_bias.some /\ ~other.logit_bias.some => ~s.logit_bias.some
       /\ pre.logit_bias.some /\ ~other.logit_bias.some =>
            /\ s.logit_bias.some
            /\ s.logit_bias.v.rows = pre.logit_bias.v.rows \o ZeroRows(LenOf(other))
       /\ ~pre.logit_bias.some /\ other.logit_bias.some =>
            /\ s.logit_bias.some
            /\ s.logit_bias.v.rows = ZeroRows(LenOf(pre)) \o other.logit_bias.v.rows

\* C16: after self.merge_batch(other), self.is_all_greedy is the conjunction
\* of the flag self had before and the flag of other.
C16_GreedyIsConjunction ==
  slast.op = "merge_batch" =>
    sb[slast.on].v.is_all_greedy =
      (slast.pre.v.is_all_greedy /\ slast.other.v.is_all_greedy)

\* an all-greedy batch has merged a batch that is not all greedy and has
\* lost the flag
C16_Witness ==
  /\ slast.op = "merge_batch" /\ ~slast.raised
  /\ slast.pre.v.is_all_greedy /\ ~slast.other.v.is_all_greedy
  /\ ~sb[slast.on].v.is_all_greedy
  /\ \E i \in 1..LenOf(sb[slast.on].v) : sb[slast.on].v.top_ks.rows[i] > 1

\* batch s has no active constraint: the grammar list is None, or empty, or
\* holds None in every row
NoActiveGrammar(s) ==
  \/ ~s.grammars.some
  \/ s.grammars.v = << >>
  \/ \A i \in 1..Len(s.grammars.v) : s.grammars.v[i] = NoneT

\* C17: update_regex_vocab_mask on a state without active constraint leaves
\* the vocabulary mask and the mask routine None, also when the state held a
\* mask and a routine from the step before, and calls neither
\* allocate_vocab_mask nor fill_vocab_mask.
C17_NoGrammarNoMask ==
  slast.op = "update_regex_vocab_mask" /\ NoActiveGrammar(slast.pre.v) =>
    /\ sb[slast.on].v.vocab_mask = NoneT
    /\ sb[slast.on].v.apply_mask = NoneT
    /\ slast.calls = << >>

\* a state that held the mask and the routine of the step before has been
\* updated with a grammar list of None entries only and has lost both
C17_Witness ==
  /\ slast.op = "update_regex_vocab_mask"
  /\ slast.pre.v.vocab_mask.some /\ slast.pre.v.apply_mask.some
  /\ slast.pre.v.grammars.some /\ Len(slast.pre.v.grammars.v) >= 2
  /\ NoActiveGrammar(slast.pre.v)
  /\ sb[slast.on].v.vocab_mask = NoneT
  /\ sb[slast.on].v.apply_mask = NoneT

\* the rows of batch s whose grammar entry is present
ActiveRows(s) == {i \in 1..Len(s.grammars.v) : s.grammars.v[i] # NoneT}

\* C18: update_regex_vocab_mask on a state with at least one active
\* constraint allocates a fresh mask of one row per row of the batch and
\* vocab_size columns and calls fill_vocab_mask once for every row i whose
\* grammar entry is present, with the index i, and for no other row: the
\* rows without grammar are as the allocation left them.
C18_MaskFilledForActiveRows ==
  slast.op = "update_regex_vocab_mask" /\ ~NoActiveGrammar(slast.pre.v) =>
    LET pre == slast.pre.v
        s == sb[slast.on].v
        fills == SelectSeq(slast.calls, LAMBDA c : c.f = "fill_vocab_mask")
    IN /\ s.vocab_mask.some /\ s.apply_mask.some
       /\ s.vocab_mask.v.rows = LenOf(pre)
       /\ s.vocab_mask.v.cols = pre.vocab_size
       /\ s.vocab_mask.v.filled = ActiveRows(pre)
       /\ Head(slast.calls) = [f |-> "allocate_vocab_mask", arg |-> LenOf(pre)]
       /\ Len(slast.calls) = 1 + Len(fills)
       /\ Len(fills) = Cardinality(ActiveRows(pre))
       /\ {fills[j].arg : j \in 1..Len(fills)} = ActiveRows(pre)

\* a state whose mask of the step before had its first row written has been
\* updated with a grammar in its last row only: the new mask has all the
\* rows of the batch and only the last one written
C18_Witness ==
  /\ slast.op = "update_regex_vocab_mask"
  /\ LenOf(slast.pre.v) >= 2
  /\ slast.pre.v.vocab_mask.some /\ 1 \in slast.pre.v.vocab_mask.v.filled
  /\ slast.pre.v.grammars.some
  /\ ActiveRows(slast.pre.v) = {LenOf(slast.pre.v)}
  /\ sb[slast.on].v.vocab_mask.v.rows = LenOf(slast.pre.v)
  /\ sb[slast.on].v.vocab_mask.v.filled = {LenOf(slast.pre.v)}

\* what the prepared linear penalizers of orchestrator o add up to
LinearSum(o) ==
  (IF IsPrepared(o, "frequency") THEN Weight("frequency") * (o.cum + 1) ELSE 0)
  + (IF IsPrepared(o, "min_new_tokens") THEN Weight("min_new_tokens") * (o.cum + 1) ELSE 0)
  + (IF IsPrepared(o, "presence") THEN Weight("presence") * (o.cum + 1) ELSE 0)

\* the two buffers as the penalizer state of batch s alone determines them
ExpectedLinear(s) ==
  IF /\ s.penalizer_orchestrator.some
     /\ \E p \in PenalizerKinds \ {"repetition"} : IsPrepared(s.penalizer_orchestrator.v, p)
    THEN Some([rows |-> BatchSize(s.penalizer_orchestrator.v), cols |-> s.vocab_size,
               val |-> LinearSum(s.penalizer_orchestrator.v)])
    ELSE NoneT

ExpectedScaling(s) ==
  IF /\ s.penalizer_orchestrator.some
     /\ IsPrepared(s.penalizer_orchestrator.v, "repetition")
    THEN Some(CumulatedRepetitionPenalties(s.penalizer_orchestrator.v))
    ELSE NoneT

\* C19: the penalty buffers update_penalties leaves are a function of the
\* penalizer state at the call and never of what the buffers held before:
\* a buffer is present after the call only if a prepared penalizer gave to
\* it in this call, and a second call with the penalizer state unchanged
\* leaves the same buffers as the first.
C19_BuffersFromPenalizersOnly ==
  slast.op = "update_penalties" =>
    LET s == sb[slast.on].v IN
      /\ s.penalizer_orchestrator = slast.pre.v.penalizer_orchestrator
      /\ s.linear_penalties = ExpectedLinear(slast.pre.v)
      /\ s.scaling_penalties = ExpectedScaling(slast.pre.v)

\* update_penalties has been called on a state that held both buffers from
\* a call before and has left the same two buffers
C19_Witness ==
  /\ slast.op = "update_penalties" /\ nops = 2
  /\ slast.pre.v.linear_penalties.some /\ slast.pre.v.scaling_penalties.some
  /\ slast.pre.v.linear_penalties.v.val > 0
  /\ sb[slast.on].v.linear_penalties = slast.pre.v.linear_penalties
  /\ sb[slast.on].v.scaling_penalties = slast.pre.v.scaling_penalties

\* the state part of C20: the copy just made carries the tracked per-row
\* arrays (temperatures, top_ps, top_ks, min_ps, the logit bias) and the
\* flags of the original and has no mask, no mask routine, no penalty
\* buffer and no orchestrator
C20_CopyState ==
  slast.op = "copy" =>
    LET o == slast.pre.v
        c == sb["copy"].v
    IN /\ c.temperatures = o.temperatures
       /\ c.top_ps = o.top_ps
       /\ c.top_ks = o.top_ks
       /\ c.min_ps = o.min_ps
       /\ c.logit_bias = o.logit_bias
       /\ c.is_all_greedy = o.is_all_greedy
       /\ c.need_min_p_sampling = o.need_min_p_sampling
       /\ c.vocab_mask = NoneT /\ c.apply_mask = NoneT
       /\ c.linear_penalties = NoneT /\ c.scaling_penalties = NoneT
       /\ c.penalizer_orchestrator = NoneT

\* the step part of C20: an operation on the copy leaves the original as it is
C20_Frame ==
  slast'.on = "copy" /\ sb["self"].some => sb'["self"] = sb["self"]

\* C20 as stated: copy() gives a state with the tracked per-row arrays and
\* the flags of the original and with the mask, the mask routine, the two
\* penalty buffers and the orchestrator absent, and no update_penalties,
\* update_regex_vocab_mask, filter_batch or merge_batch on the copy changes
\* the original.
C20_CopyIsolated == []C20_CopyState /\ [][C20_Frame]_vars

\* the part of C20 the code keeps: the four tensors and the flags are
\* carried over, the derived state is cleared, the original is not touched
C20_FourTensorsCopied ==
  slast.op = "copy" =>
    LET o == slast.pre.v
        c == sb["copy"].v
    IN /\ c.temperatures = o.temperatures
       /\ c.top_ps = o.top_ps
       /\ c.top_ks = o.top_ks
       /\ c.min_ps = o.min_ps
       /\ c.is_all_greedy = o.is_all_greedy
       /\ c.need_min_p_sampling = o.need_min_p_sampling
       /\ c.vocab_mask = NoneT /\ c.apply_mask = NoneT
       /\ c.linear_penalties = NoneT /\ c.scaling_penalties = NoneT
       /\ c.penalizer_orchestrator = NoneT
       /\ c.logit_bias = NoneT /\ c.grammars = NoneT

\* C21 as stated: after to(device) every per-row array of the state, the
\* logit bias included when there is one, is placed on the given device and
\* has the rows it had before the call, in the same order.
C21_AllRowsMoved ==
  slast.op = "to" =>
    LET pre == slast.pre.v
        s == sb[slast.on].v
    IN /\ s.temperatures = T(slast.device, pre.temperatures.rows)
       /\ s.top_ps = T(slast.device, pre.top_ps.rows)
       /\ s.top_ks = T(slast.device, pre.top_ks.rows)
       /\ s.min_ps = T(slast.device, pre.min_ps.rows)
       /\ s.logit_bias.some = pre.logit_bias.some
       /\ pre.logit_bias.some =>
            s.logit_bias.v = T(slast.device, pre.logit_bias.v.rows)

\* the part of C21 the code keeps: the four tensors of lines 228-233 are on
\* the given device with their rows as before; the logit bias is left as and
\* where it was
C21_FourTensorsMoved ==
  slast.op = "to" =>
    LET pre == slast.pre.v
        s == sb[slast.on].v
    IN /\ s.temperatures = T(slast.device, pre.temperatures.rows)
       /\ s.top_ps = T(slast.device, pre.top_ps.rows)
       /\ s.top_ks = T(slast.device, pre.top_ks.rows)
       /\ s.min_ps = T(slast.device, pre.min_ps.rows)
       /\ s.logit_bias = pre.logit_bias

\* the i-th request of the list the batch just built was built from: the
\* last LenOf(s) requests scheduled, in scheduling order
BuiltFrom(s, i) == nreq - LenOf(s) + i

\* C22: a state built by from_schedule_batch has in row i of temperatures,
\* top_ps, top_ks and min_ps the sampling parameters of the i-th request of
\* the list, is_all_greedy true iff every request has top_k <= 1,
\* need_min_p_sampling true iff some request has min_p > 0, and no logit
\* bias, no mask and no penalty buffer.
C22_BuiltFromRequests ==
  slast.op = "from_schedule_batch" =>
    LET s == sb[slast.on].v
        n == LenOf(s)
    IN /\ n >= 1
       /\ Len(s.top_ps.rows) = n /\ Len(s.top_ks.rows) = n /\ Len(s.min_ps.rows) = n
       /\ \A i \in 1..n :
            /\ s.temperatures.rows[i] = Temperature(BuiltFrom(s, i))
            /\ s.top_ps.rows[i] = TopP(BuiltFrom(s, i))
            /\ s.top_ks.rows[i] = TopK(BuiltFrom(s, i))
            /\ s.min_ps.rows[i] = MinP(BuiltFrom(s, i))
       /\ s.is_all_greedy = (\A i \in 1..n : TopK(BuiltFrom(s, i)) <= 1)
       /\ s.need_min_p_sampling = (\E i \in 1..n : MinP(BuiltFrom(s, i)) > 0)
       /\ s.logit_bias = NoneT
       /\ s.vocab_mask = NoneT /\ s.apply_mask = NoneT
       /\ s.linear_penalties = NoneT /\ s.scaling_penalties = NoneT

\* a batch has been built from three requests of which one is not greedy and
\* one has min_p > 0
C22_Witness ==
  /\ slast.op = "from_schedule_batch"
  /\ LenOf(sb[slast.on].v) = 3
  /\ sb[slast.on].v.top_ks.rows = << TopK(1), TopK(2), TopK(3) >>
  /\ TopK(2) > 1 /\ MinP(3) > 0
  /\ ~sb[slast.on].v.is_all_greedy
  /\ sb[slast.on].v.need_min_p_sampling

\* the places of the code where a thread holds cache_lock: the with blocks
\* of _init_value (87-94), get_cached_value (104-109) and reset (115-116)
LockedPcs == {"iv_release", "gc_none", "gc_value", "rs_release"}

\* the places where a thread runs the compile or waits on an entry's event
OutsidePcs == {"iv_compile", "iv_set", "iv_wait"}

\* C23: cache_lock is never held while a compile runs or a caller waits on
\* an event: a thread in the compile or in the wait does not hold the lock,
\* the lock is free or held by a thread inside a lookup, insert or clear,
\* which can always go on to release it, and with the lock free every thread
\* about to look up, peek or clear can take its step whatever compiles run.
C23_LockNeverOverCompile ==
  /\ \A t \in Threads : pc[t] \in OutsidePcs => lock # t
  /\ lock # 0 => /\ lock \in Threads
                 /\ pc[lock] \in LockedPcs
                 /\ ENABLED Step(lock)
  /\ \A t \in Threads :
       pc[t] \in {"iv_lookup", "gc_get", "rs_clear"} /\ lock = 0 => ENABLED Step(t)

\* while one thread is in the compile of a key and another waits on that
\* entry, a third holds the lock in the lookup of another key
C23_Witness ==
  \E t \in Threads : \E w \in Threads : \E u \in Threads :
    /\ pc[t] = "iv_compile" /\ pc[w] = "iv_wait" /\ loc[w].entry = loc[t].entry
    /\ lock = u /\ pc[u] = "iv_release"
    /\ loc[u].key # loc[t].key

\* a step leaves every entry whose event is set as it is, and drops no entry
C24_Step ==
  \A e \in DOMAIN entries :
    /\ e \in DOMAIN entries'
    /\ entries[e].event => entries'[e] = entries[e]

\* the value of an entry is written by the one compile of the caller that
\* inserted it, before the event is set
C24_State ==
  \A e \in DOMAIN entries :
    /\ Len(compiled[e]) <= 1
    /\ entries[e].event => Len(compiled[e]) = 1
    /\ entries[e].event =>
         \A t \in Threads : loc[t].entry = e => pc[t] \notin {"iv_compile", "iv_set"}

\* C24: an entry goes from Pending to Ready and never back: once its event
\* is set the event stays set and no thread writes its value again, so no
\* reader sees a Ready entry whose value changes later.
C24_ReadyIsFinal == []C24_State /\ [][C24_Step]_vars

\* an entry with a compiled value is Ready, has been read from the table by
\* a later caller and has outlived a reset
C24_Witness ==
  \E e \in DOMAIN entries :
    /\ entries[e].event /\ entries[e].value # None
    /\ made[e].gen < gen
    /\ \E h \in Ends : h.op \in InitOps /\ h.entry = e /\ h.hit

\* a compile of the run does not end normally: a call with a key whose
\* compile raises has been submitted, is running or has ended
AbnormalSeen ==
  \/ \E i \in DOMAIN queue : ~Normal(queue[i])
  \/ \E t \in Threads : loc[t].op \in InitOps /\ ~Normal(loc[t].key)
  \/ \E h \in Ends : h.op \in InitOps /\ ~Normal(h.key)

\* a thread waiting, or about to wait, on a Pending entry waits for a
\* compile that another thread is already running: the thread that inserted
\* the entry is past its lookup, not a task still in the executor's queue
C25_WaitsForRunning ==
  \A t \in Threads :
    /\ loc[t].op \in InitOps /\ loc[t].hit /\ Normal(loc[t].key)
    /\ ~entries[loc[t].entry].event
    => \E u \in Threads \ {t} :
         /\ loc[u].entry = loc[t].entry /\ ~loc[u].hit
         /\ pc[u] \in {"iv_release", "iv_compile", "iv_set"}

\* C25: with a pool of bounded size and any submissions of get_future_value,
\* also many of one key, every future completes when every compile ends
\* normally: a submitted task is taken by a pool thread, the thread that
\* runs it returns, and a pool thread that waits on a Pending entry waits
\* for a compile already running on a thread, never for a task queued
\* behind it.
C25_FuturesComplete ==
  /\ []C25_WaitsForRunning
  /\ (queue # << >>) ~> (queue = << >> \/ AbnormalSeen)
  /\ \A t \in Workers : (loc[t].op = "future") ~> (pc[t] = "idle" \/ AbnormalSeen)

\* more tasks of one key than the pool serves at once: one pool thread runs
\* the compile, the next waits on the Pending entry, a further task of the
\* key is still queued
C25_Witness ==
  /\ ~AbnormalSeen
  /\ queue # << >>
  /\ \E t \in Workers : \E u \in Workers :
       /\ pc[t] = "iv_wait" /\ ~entries[loc[t].entry].event
       /\ pc[u] = "iv_compile" /\ loc[u].entry = loc[t].entry
       /\ Head(queue) = loc[t].key

\* every row of the batch is greedy
AllRowsGreedy(s) == \A i \in 1..LenOf(s) : s.top_ks.rows[i] <= 1

\* C26: after from_schedule_batch and any sequence of filter_batch,
\* merge_batch and copy, a batch whose is_all_greedy is true has top_k <= 1
\* in every row; the flag may stay false when a filter has left greedy rows
\* only.
C26_GreedyFlagSound ==
  \A b \in Batches : sb[b].v.is_all_greedy => AllRowsGreedy(sb[b].v)

\* two greedy batches are merged and the result is copied: the copy holds
\* two greedy rows and a true flag
C26_Witness ==
  /\ slast.op = "copy" /\ sb["copy"].some
  /\ sb["copy"].v.is_all_greedy /\ LenOf(sb["copy"].v) >= 2
  /\ AllRowsGreedy(sb["copy"].v)

\* some row of the batch needs min-p sampling
SomeRowMinP(s) == \E i \in 1..LenOf(s) : s.min_ps.rows[i] > 0

\* C27: after from_schedule_batch and any sequence of filter_batch and
\* merge_batch, a batch with a row whose min_p > 0 has need_min_p_sampling
\* true.
C27_MinPFlagCovers ==
  \A b \in Batches : SomeRowMinP(sb[b].v) => sb[b].v.need_min_p_sampling
====
